---------------------------- MODULE Spec2Model ----------------------------
(***************************************************************************)
(* Banker's algorithm simulator (src/unnamed/part_001, Ruby).              *)
(*                                                                         *)
(* The program owns one SystemState (total, available, max, allocation,    *)
(* need) and offers two operations on it from its menu loop: the safety    *)
(* check Banker#safe? and the resource request Banker#request.             *)
(*                                                                         *)
(* Vectors are sequences indexed 1..m (one entry per resource type); the   *)
(* matrices are functions from the process ids 0..n-1, as in the source,   *)
(* to vectors.  The log lines the source returns are modelled by the       *)
(* rejection reason they announce.                                         *)
(***************************************************************************)
EXTENDS Integers, Sequences, FiniteSets, TLC

VARIABLES
    state,      \* Banker#state: the SystemState the banker owns
    last,       \* what the last menu operation returned
    call,       \* the last request observed: its pid, its vector, the state before it
    init_safe,  \* whether safe? held of the state the constructor supplied
    run,        \* the operation in progress: where it stands, the pid and
                \* the saved vectors of request, the locals of safe?
    sim,        \* the page replacement simulation (page_replacement.cpp)
    sched       \* the SRTF scheduling run (src/unnamed/part_000)

vars == <<state, last, call, init_safe, run, sim, sched>>

-----------------------------------------------------------------------------
(* Bounds of the generic family of systems.  build_from_input asks for at  *)
(* least 5 processes and 3 resource types (line 139); Banker itself works  *)
(* on any n and m, and a generic system stands for the larger one whose    *)
(* further processes claim nothing and whose further resource types have   *)
(* no units.  The classic example (sample_state) keeps its 5 processes and *)
(* 3 resource types.                                                       *)

\* processes of a generic system
NProc == 2
\* resource types of a generic system: two (the classic example has three)
ResTypes == {1, 2}
MRes == Cardinality(ResTypes)
\* resource units a generic system owns, all types together
MaxUnits == 2
\* largest component of a request vector typed at the menu
MaxReq == 1

-----------------------------------------------------------------------------
(* Vector algebra: part_001 lines 1-11.                                    *)

vec_leq(a, b) == \A k \in 1..Len(a) : a[k] <= b[k]

vec_add(a, b) == [k \in 1..Len(a) |-> a[k] + b[k]]

\* variant: the operands of the subtraction exchanged
vec_sub_reversed(a, b) == [k \in 1..Len(a) |-> b[k] - a[k]]

vec_sub(a, b) == [k \in 1..Len(a) |-> a[k] - b[k]]

\* SystemState#n and SystemState#m
n(s) == Cardinality(DOMAIN s.max)

m(s) == Len(s.total)

-----------------------------------------------------------------------------
(* Banker#safe?: part_001 lines 30-62.                                     *)

\* variant: a process is finished without comparing its need with work
scan_step_unchecked(s, c, i) ==
    IF c.finish[i] THEN c
    ELSE [c EXCEPT !.work     = vec_add(c.work, s.allocation[i]),
                   !.finish[i] = TRUE,
                   !.sequence = Append(c.sequence, i),
                   !.progress = TRUE]

\* variant: work is no copy but the array of state.available itself, and the
\* addition is made in place
scan_step_in_place(s, c, i) ==
    IF c.finish[i] THEN c
    ELSE IF ~vec_leq(s.need[i], c.work) THEN c
    ELSE [c EXCEPT !.work     = vec_add(c.work, s.allocation[i]),
                   !.state.available = vec_add(c.work, s.allocation[i]),
                   !.finish[i] = TRUE,
                   !.sequence = Append(c.sequence, i),
                   !.progress = TRUE]

\* one execution of the body of `n.times do |i| ... end` for index i, on the
\* locals c = [work, finish, sequence, progress]; c.state is the SystemState
\* as the call leaves it (work is a copy, line 32, and line 44 rebinds it)
scan_step(s, c, i) ==
    IF c.finish[i] THEN c
    ELSE IF ~vec_leq(s.need[i], c.work) THEN c
    ELSE [c EXCEPT !.work     = vec_add(c.work, s.allocation[i]),
                   !.finish[i] = TRUE,
                   !.sequence = Append(c.sequence, i),
                   !.progress = TRUE]

\* variant: a pass ends at its first completion (one completion per pass)
RECURSIVE scan_one_completion(_, _, _)
scan_one_completion(s, c, i) ==
    IF i >= n(s) THEN c
    ELSE LET d == scan_step(s, c, i)
         IN  IF d.progress THEN d ELSE scan_one_completion(s, d, i + 1)

\* `n.times do |i| ... end` from index i on: one pass over the processes
RECURSIVE scan(_, _, _)
scan(s, c, i) ==
    IF i >= n(s) THEN c
    ELSE scan(s, scan_step(s, c, i), i + 1)

\* variant: the loop is left after its first pass
safe_loop_single_pass(s, c) ==
    LET d == scan(s, [c EXCEPT !.progress = FALSE], 0)
    IN  [d EXCEPT !.passes = c.passes + 1]

\* variant: one more pass is made after the pass without progress
RECURSIVE safe_loop_extra_pass(_, _)
safe_loop_extra_pass(s, c) ==
    LET d == scan(s, [c EXCEPT !.progress = FALSE], 0)
        e == [d EXCEPT !.passes = c.passes + 1]
    IN  IF e.progress THEN safe_loop_extra_pass(s, e)
        ELSE [scan(s, e, 0) EXCEPT !.passes = e.passes + 1]

\* `loop do ... break unless progress end`; passes counts the scans made
RECURSIVE safe_loop(_, _)
safe_loop(s, c) ==
    LET d == scan(s, [c EXCEPT !.progress = FALSE], 0)
        e == [d EXCEPT !.passes = c.passes + 1]
    IN  IF e.progress THEN safe_loop(s, e) ELSE e

\* the value safe? returns, with the locals it ends on
safe(s) ==
    LET c0 == [work     |-> s.available,
               finish   |-> [i \in DOMAIN s.max |-> FALSE],
               sequence |-> <<>>,
               progress |-> FALSE,
               passes   |-> 0,
               state    |-> s]
        c  == safe_loop(s, c0)
    IN  [safe     |-> \A i \in DOMAIN s.max : c.finish[i],
         sequence |-> c.sequence,
         remain   |-> {i \in DOMAIN s.max : ~c.finish[i]},
         work     |-> c.work,
         passes   |-> c.passes,
         state    |-> c.state]

-----------------------------------------------------------------------------
(* Banker#request: part_001 lines 64-104.                                  *)

\* variant: available is tested before need
validate_available_first(s, pid, req) ==
    IF ~(pid \in 0..(n(s) - 1)) THEN "InvalidProcessId"
    ELSE IF Len(req) # m(s) THEN "DimensionMismatch"
    ELSE IF \E k \in 1..Len(req) : req[k] < 0 THEN "NegativeRequest"
    ELSE IF ~vec_leq(req, s.available) THEN "ExceedsAvailable"
    ELSE IF ~vec_leq(req, s.need[pid]) THEN "ExceedsNeed"
    ELSE "ok"

\* variant: the test against available is missing
validate_skips_available(s, pid, req) ==
    IF ~(pid \in 0..(n(s) - 1)) THEN "InvalidProcessId"
    ELSE IF Len(req) # m(s) THEN "DimensionMismatch"
    ELSE IF \E k \in 1..Len(req) : req[k] < 0 THEN "NegativeRequest"
    ELSE IF ~vec_leq(req, s.need[pid]) THEN "ExceedsNeed"
    ELSE "ok"

\* the guards of lines 65-79, in the order the code tests them; "ok" when
\* the request passes all five
validate(s, pid, req) ==
    IF ~(pid \in 0..(n(s) - 1)) THEN "InvalidProcessId"
    ELSE IF Len(req) # m(s) THEN "DimensionMismatch"
    ELSE IF \E k \in 1..Len(req) : req[k] < 0 THEN "NegativeRequest"
    ELSE IF ~vec_leq(req, s.need[pid]) THEN "ExceedsNeed"
    ELSE IF ~vec_leq(req, s.available) THEN "ExceedsAvailable"
    ELSE "ok"

\* variant: need[pid] is not lowered
tentative_apply_keeps_need(s, pid, req) ==
    [s EXCEPT !.available       = vec_sub(s.available, req),
              !.allocation[pid] = vec_add(s.allocation[pid], req)]

\* variant: available is not lowered
tentative_apply_keeps_available(s, pid, req) ==
    [s EXCEPT !.allocation[pid] = vec_add(s.allocation[pid], req),
              !.need[pid]       = vec_sub(s.need[pid], req)]

\* lines 86-88: the tentative allocation
tentative_apply(s, pid, req) ==
    [s EXCEPT !.available       = vec_sub(s.available, req),
              !.allocation[pid] = vec_add(s.allocation[pid], req),
              !.need[pid]       = vec_sub(s.need[pid], req)]

\* variant: need[pid] is not restored
rollback_drops_need(t, pid, old_availability, old_allocation, old_need) ==
    [t EXCEPT !.available       = old_availability,
              !.allocation[pid] = old_allocation]

\* lines 98-100: the rollback from the three saved vectors
rollback(t, pid, old_availability, old_allocation, old_need) ==
    [t EXCEPT !.available       = old_availability,
              !.allocation[pid] = old_allocation,
              !.need[pid]       = old_need]

\* variant: the tentative state is committed whatever safe? answered
decide_grants_unsafe(s, t, pid, chk) ==
    [ok |-> TRUE, reason |-> "Granted", state |-> t]

\* lines 95-103: commit when the tentative state is safe, else roll back
decide(s, t, pid, chk) ==
    IF chk.safe
    THEN [ok |-> TRUE, reason |-> "Granted", state |-> t]
    ELSE [ok |-> FALSE, reason |-> "UnsafeAfterAllocation",
          state |-> rollback(t, pid, s.available, s.allocation[pid], s.need[pid])]

\* the whole of request: the returned flag, the reason its log states, and
\* the SystemState it leaves behind
request(s, pid, req) ==
    LET v == validate(s, pid, req)
    IN  IF v # "ok"
        THEN [ok |-> FALSE, reason |-> v, state |-> s]
        ELSE LET t   == tentative_apply(s, pid, req)
                 chk == safe(t)
             IN  decide(s, chk.state, pid, chk)

-----------------------------------------------------------------------------
(* State constructors.                                                     *)

\* sample_state: part_001 lines 119-129
RECURSIVE col_sum(_, _, _)
col_sum(alloc, j, i) ==
    IF i < 0 THEN 0 ELSE alloc[i][j] + col_sum(alloc, j, i - 1)

make_state(total, max, alloc) ==
    LET procs == DOMAIN max
        np    == Cardinality(procs)
    IN  [total      |-> total,
         available  |-> [j \in 1..Len(total) |-> total[j] - col_sum(alloc, j, np - 1)],
         max        |-> max,
         allocation |-> alloc,
         need       |-> [i \in procs |-> vec_sub(max[i], alloc[i])]]

rows(r0, r1, r2, r3, r4) ==
    [i \in 0..4 |-> CASE i = 0 -> r0 [] i = 1 -> r1 [] i = 2 -> r2
                      [] i = 3 -> r3 [] OTHER -> r4]

sample_state ==
    make_state(<<10, 5, 7>>,
               rows(<<7, 5, 3>>, <<3, 2, 2>>, <<9, 0, 2>>, <<2, 2, 2>>, <<4, 3, 3>>),
               rows(<<0, 1, 0>>, <<2, 0, 0>>, <<3, 0, 2>>, <<2, 1, 1>>, <<0, 0, 2>>))

-----------------------------------------------------------------------------
(* Page replacement simulator                                              *)
(* (src/Memory-Allocation-algo/Page-replacement/page_replacement.cpp).     *)
(* frames, lastUsed_ and the reference string are indexed from 0 in the    *)
(* source; here frames and lastUsed_ are functions on 0..frameCount-1 and  *)
(* ref is a sequence, ref[step + 1] being the source's ref[step].          *)

\* largest frame count typed at the prompt
MaxFrames == 2
\* pages are numbered 0..MaxPage (0 is also the page of an empty Frame)
MaxPage == 2
\* longest reference string typed at the prompt
MaxRefLen == 5

\* struct Frame, lines 18-21
empty_frame == [page |-> 0, valid |-> FALSE]

frame_count(frames) == Cardinality(DOMAIN frames)

\* the hit loops of lines 40-44, 72-77, 110-114: the lowest frame that holds
\* the page, -1 when none does
RECURSIVE find_page(_, _, _)
find_page(frames, page, i) ==
    IF i >= frame_count(frames) THEN -1
    ELSE IF frames[i].valid /\ frames[i].page = page THEN i
    ELSE find_page(frames, page, i + 1)

\* the fill loops of lines 46-52, 79-86, 116-122: the lowest invalid frame,
\* -1 when all are valid
RECURSIVE find_invalid(_, _)
find_invalid(frames, i) ==
    IF i >= frame_count(frames) THEN -1
    ELSE IF ~frames[i].valid THEN i
    ELSE find_invalid(frames, i + 1)

\* frames[i].page = page; frames[i].valid = true
load(frames, i, page) == [frames EXCEPT ![i] = [page |-> page, valid |-> TRUE]]

\* variant: the victim is the frame before the pointer
fifo_access_stale_pointer(a, step, page, frames, ref) ==
    IF find_page(frames, page, 0) >= 0
    THEN [hit |-> TRUE, victim |-> -1, frames |-> frames, a |-> a]
    ELSE IF find_invalid(frames, 0) >= 0
    THEN [hit |-> FALSE, victim |-> find_invalid(frames, 0),
          frames |-> load(frames, find_invalid(frames, 0), page), a |-> a]
    ELSE LET victim == (a.nextIndex_ + 1) % frame_count(frames)
         IN  [hit |-> FALSE, victim |-> victim, frames |-> load(frames, victim, page),
              a |-> [a EXCEPT !.nextIndex_ = (a.nextIndex_ + 1) % frame_count(frames)]]

\* FifoState::access, lines 36-59; a is the algorithm's own state
fifo_access(a, step, page, frames, ref) ==
    IF find_page(frames, page, 0) >= 0
    THEN [hit |-> TRUE, victim |-> -1, frames |-> frames, a |-> a]
    ELSE IF find_invalid(frames, 0) >= 0
    THEN [hit |-> FALSE, victim |-> find_invalid(frames, 0),
          frames |-> load(frames, find_invalid(frames, 0), page), a |-> a]
    ELSE LET victim == a.nextIndex_
         IN  [hit |-> FALSE, victim |-> victim, frames |-> load(frames, victim, page),
              a |-> [a EXCEPT !.nextIndex_ = (a.nextIndex_ + 1) % frame_count(frames)]]

\* lines 88-95: the lowest frame with the smallest lastUsed_
RECURSIVE lru_victim(_, _, _, _)
lru_victim(lastUsed_, i, victim, oldest) ==
    IF i >= frame_count(lastUsed_) THEN victim
    ELSE IF lastUsed_[i] < oldest THEN lru_victim(lastUsed_, i + 1, i, lastUsed_[i])
    ELSE lru_victim(lastUsed_, i + 1, victim, oldest)

\* variant: a hit does not refresh lastUsed_
lru_access_hit_not_recorded(a, step, page, frames, ref) ==
    IF find_page(frames, page, 0) >= 0
    THEN [hit |-> TRUE, victim |-> -1, frames |-> frames, a |-> a]
    ELSE IF find_invalid(frames, 0) >= 0
    THEN [hit |-> FALSE, victim |-> find_invalid(frames, 0),
          frames |-> load(frames, find_invalid(frames, 0), page),
          a |-> [a EXCEPT !.lastUsed_[find_invalid(frames, 0)] = step]]
    ELSE LET victim == lru_victim(a.lastUsed_, 1, 0, a.lastUsed_[0])
         IN  [hit |-> FALSE, victim |-> victim, frames |-> load(frames, victim, page),
              a |-> [a EXCEPT !.lastUsed_[victim] = step]]

\* LruState::access, lines 68-101
lru_access(a, step, page, frames, ref) ==
    IF find_page(frames, page, 0) >= 0
    THEN [hit |-> TRUE, victim |-> -1, frames |-> frames,
          a |-> [a EXCEPT !.lastUsed_[find_page(frames, page, 0)] = step]]
    ELSE IF find_invalid(frames, 0) >= 0
    THEN [hit |-> FALSE, victim |-> find_invalid(frames, 0),
          frames |-> load(frames, find_invalid(frames, 0), page),
          a |-> [a EXCEPT !.lastUsed_[find_invalid(frames, 0)] = step]]
    ELSE LET victim == lru_victim(a.lastUsed_, 1, 0, a.lastUsed_[0])
         IN  [hit |-> FALSE, victim |-> victim, frames |-> load(frames, victim, page),
              a |-> [a EXCEPT !.lastUsed_[victim] = step]]

\* lines 128-134: the next index after step where ref holds page, -1 when none
RECURSIVE next_use(_, _, _)
next_use(ref, j, page) ==
    IF j >= Len(ref) THEN -1
    ELSE IF ref[j + 1] = page THEN j
    ELSE next_use(ref, j + 1, page)

\* variant: the test for a page that is never used again is missing
RECURSIVE opt_victim_no_never_test(_, _, _, _, _, _)
opt_victim_no_never_test(frames, ref, step, i, victim, farthestNextUse) ==
    IF i >= frame_count(frames) THEN victim
    ELSE LET nextUse == next_use(ref, step + 1, frames[i].page)
         IN  IF nextUse > farthestNextUse
             THEN opt_victim_no_never_test(frames, ref, step, i + 1, i, nextUse)
             ELSE opt_victim_no_never_test(frames, ref, step, i + 1, victim,
                                           farthestNextUse)

\* lines 127-145: the scan for the victim from frame i on
RECURSIVE opt_victim(_, _, _, _, _, _)
opt_victim(frames, ref, step, i, victim, farthestNextUse) ==
    IF i >= frame_count(frames) THEN victim
    ELSE LET nextUse == next_use(ref, step + 1, frames[i].page)
         IN  IF nextUse = -1 THEN i
             ELSE IF nextUse > farthestNextUse
             THEN opt_victim(frames, ref, step, i + 1, i, nextUse)
             ELSE opt_victim(frames, ref, step, i + 1, victim, farthestNextUse)

\* OptState::access, lines 108-154
opt_access(a, step, page, frames, ref) ==
    IF find_page(frames, page, 0) >= 0
    THEN [hit |-> TRUE, victim |-> -1, frames |-> frames, a |-> a]
    ELSE IF find_invalid(frames, 0) >= 0
    THEN [hit |-> FALSE, victim |-> find_invalid(frames, 0),
          frames |-> load(frames, find_invalid(frames, 0), page), a |-> a]
    ELSE LET v      == opt_victim(frames, ref, step, 0, -1, -1)
             victim == IF v = -1 THEN 0 ELSE v
         IN  [hit |-> FALSE, victim |-> victim, frames |-> load(frames, victim, page),
              a |-> a]

\* variant: a fault always takes frame 0
access_always_frame_zero(algo, a, step, page, frames, ref) ==
    IF find_page(frames, page, 0) >= 0
    THEN [hit |-> TRUE, victim |-> -1, frames |-> frames, a |-> a]
    ELSE [hit |-> FALSE, victim |-> 0, frames |-> load(frames, 0, page), a |-> a]

\* state->access(...), line 185: the virtual call
access(algo, a, step, page, frames, ref) ==
    CASE algo = "Fifo_algo" -> fifo_access(a, step, page, frames, ref)
      [] algo = "Opt_algo"  -> opt_access(a, step, page, frames, ref)
      [] algo = "Lru_algo"  -> lru_access(a, step, page, frames, ref)

\* selectAlgo, lines 247-254
selectAlgo(choice) ==
    CASE choice = 1 -> "Fifo_algo"
      [] choice = 2 -> "Opt_algo"
      [] choice = 3 -> "Lru_algo"
      [] OTHER      -> "Fifo_algo"

-----------------------------------------------------------------------------
(* The generic family: every SystemState with NProc processes and MRes     *)
(* resource types that owns at most MaxUnits units and satisfies the four  *)
(* invariants of the data model (what build_from_input checks, lines       *)
(* 147-182, together with max <= total).                                   *)

Procs == 0..(NProc - 1)

RECURSIVE vec_total(_, _)
vec_total(v, k) == IF k = 0 THEN 0 ELSE v[k] + vec_total(v, k - 1)

Totals == {t \in [1..MRes -> 0..MaxUnits] : vec_total(t, MRes) <= MaxUnits}

VecsLeq(v) == {w \in [1..Len(v) -> 0..MaxUnits] : vec_leq(w, v)}

\* the four invariants of the data model
NeedInv(s) ==
    \A i \in DOMAIN s.max : s.need[i] = vec_sub(s.max[i], s.allocation[i])

ConservationInv(s) ==
    \A j \in 1..m(s) :
        s.available[j] + col_sum(s.allocation, j, n(s) - 1) = s.total[j]

RangeInv(s) ==
    \A i \in DOMAIN s.max : \A j \in 1..m(s) :
        /\ 0 <= s.allocation[i][j]
        /\ s.allocation[i][j] <= s.max[i][j]
        /\ s.max[i][j] <= s.total[j]

AvailableInv(s) == \A j \in 1..m(s) : s.available[j] >= 0

WellFormed(s) == NeedInv(s) /\ ConservationInv(s) /\ RangeInv(s) /\ AvailableInv(s)

\* what the menu can hand to request: any integer pid, any integer vector
Pids == -1..NProc

ReqVecs ==
    [1..MRes -> -1..MaxReq]
        \cup [1..(MRes - 1) -> {-1, 1}] \cup {[k \in 1..(MRes + 1) |-> x] : x \in {-1, 1}}

\* the requests of the classic example and of the boundary cases
SamplePids == -1..5

SampleReqs ==
    {<<1, 0, 2>>, <<3, 3, 0>>, <<0, 2, 0>>, <<0, 0, 0>>, <<1, 1, 1>>,
     <<8, 0, 0>>,
     <<1, 1>>, <<-1, 0, 0>>, <<-1, 1>>, <<1, 0, 0, 0>>}

-----------------------------------------------------------------------------
(* The program: construction, then the menu loop (lines 186-216).          *)

\* placeholder for the safety result when the last operation was not safe?
no_check ==
    [safe |-> FALSE, sequence |-> <<>>, remain |-> {}, work |-> <<>>, passes |-> 0]

\* streak: how many safe? calls in a row the last operation ends (2: two or more)
new_last ==
    [op |-> "new", ok |-> TRUE, reason |-> "", chk |-> no_check, streak |-> 0]

\* what the menu prints of a safe? call: the flag, the sequence, the log's
\* remaining processes and work, and the passes made
report(r) ==
    [safe |-> r.safe, sequence |-> r.sequence, remain |-> r.remain,
     work |-> r.work, passes |-> r.passes]

no_state ==
    [total |-> <<>>, available |-> <<>>, max |-> <<>>, allocation |-> <<>>,
     need |-> <<>>]

no_call == [pid |-> 0, req |-> <<>>, pre |-> [total |-> <<>>]]

\* no scheduling run: SRTF is not entered
no_sched ==
    [pc |-> "idle", pcbs |-> <<>>, pcb |-> <<>>, gantt |-> <<>>,
     readyQueue |-> <<>>, curr |-> 0, nextIdx |-> 0, completed |-> 0, t |-> 0]

\* the locals safe? starts on, lines 31-35
safe_begin(s) ==
    [work     |-> s.available,
     finish   |-> [i \in DOMAIN s.max |-> FALSE],
     sequence |-> <<>>,
     progress |-> FALSE,
     passes   |-> 0,
     state    |-> s]

no_locals ==
    [work |-> <<>>, finish |-> <<>>, sequence |-> <<>>, progress |-> FALSE,
     passes |-> 0, state |-> no_state]

no_old == [available |-> <<>>, allocation |-> <<>>, need |-> <<>>]

\* no operation in progress: the menu loop waits at its prompt (line 195)
idle ==
    [pc |-> "menu", op |-> "", pid |-> 0, old |-> no_old,
     c |-> no_locals]

\* no simulation running: main at its prompt (page_replacement.cpp line 262)
no_sim ==
    [algo |-> "none", ref |-> <<>>, step |-> 0, frames |-> <<>>,
     nextIndex_ |-> 0, lastUsed_ |-> <<>>, results |-> <<>>,
     done |-> FALSE, hits |-> 0, faults |-> 0]

Init ==
    \E t \in Totals : \E mx \in [Procs -> VecsLeq(t)] :
        \E al \in [Procs -> VecsLeq(t)] :
            /\ \A i \in Procs : vec_leq(al[i], mx[i])
            /\ \A j \in 1..MRes : col_sum(al, j, NProc - 1) <= t[j]
            /\ state = make_state(t, mx, al)
            /\ last = new_last
            /\ call = no_call
            /\ init_safe = safe(make_state(t, mx, al)).safe
            /\ run = idle
            /\ sim = no_sim
            /\ sched = no_sched

\* the same family with one process more, for the safety check alone: an
\* unsafe state where some process finished needs three processes
WideProcs == 0..NProc

RowPairs(t) == {p \in VecsLeq(t) \X VecsLeq(t) : vec_leq(p[2], p[1])}

InitSafety ==
    \E t \in Totals : \E f \in [WideProcs -> RowPairs(t)] :
        LET mx == [i \in WideProcs |-> f[i][1]]
            al == [i \in WideProcs |-> f[i][2]]
        IN  /\ \A j \in 1..MRes : col_sum(al, j, NProc) <= t[j]
            /\ state = make_state(t, mx, al)
            /\ last = new_last
            /\ call = no_call
            /\ init_safe = safe(make_state(t, mx, al)).safe
            /\ run = idle
            /\ sim = no_sim
            /\ sched = no_sched

InitSample ==
    /\ state = sample_state
    /\ last = new_last
    /\ call = no_call
    /\ init_safe = safe(sample_state).safe
    /\ run = idle
    /\ sim = no_sim
    /\ sched = no_sched

\* build_from_input, lines 131-184.  A line the prompt loops refuse is asked
\* again, so the lines that count are the accepted ones: line_ok is the test
\* of lines 147 and 160, alloc_ok that of line 170.  The dimensions are those
\* of the generic family (the loop of lines 134-141 asks for larger ones).
InputLines == [1..MRes -> -1..MaxUnits]

line_ok(v, mm) == Len(v) = mm /\ \A k \in 1..Len(v) : v[k] >= 0

alloc_ok(v, mx) == line_ok(v, Len(mx)) /\ vec_leq(v, mx)

\* lines 178-183: the state built from the accepted lines; raised when some
\* available would be negative (line 182)
build_from_input(total, max, alloc) ==
    LET s == make_state(total, max, alloc)
    IN  [raised |-> \E j \in 1..Len(total) : s.available[j] < 0, state |-> s]

\* the program before the choice of lines 187-189
InitBuild ==
    /\ state = no_state
    /\ last = [new_last EXCEPT !.op = "start"]
    /\ call = no_call
    /\ init_safe = FALSE
    /\ run = idle
    /\ sim = no_sim
    /\ sched = no_sched

\* choice 1: the state typed in
BuildFromInput ==
    /\ last.op = "start"
    /\ \E total \in InputLines : line_ok(total, MRes) /\
         \E max \in [Procs -> InputLines] : (\A i \in Procs : line_ok(max[i], MRes)) /\
           \E alloc \in [Procs -> InputLines] :
             /\ \A i \in Procs : alloc_ok(alloc[i], max[i])
             /\ LET b == build_from_input(total, max, alloc)
                IN  IF b.raised
                    THEN /\ last' = [new_last EXCEPT !.op = "build", !.ok = FALSE,
                                                     !.reason = "raise"]
                         /\ UNCHANGED <<state, init_safe>>
                    ELSE /\ last' = [new_last EXCEPT !.op = "build"]
                         /\ state' = b.state
                         /\ init_safe' = safe(b.state).safe
    /\ UNCHANGED <<call, run, sim, sched>>

\* choice 2: the classic example
UseSample ==
    /\ last.op = "start"
    /\ last' = [new_last EXCEPT !.op = "sample"]
    /\ state' = sample_state
    /\ init_safe' = safe(sample_state).safe
    /\ UNCHANGED <<call, run, sim, sched>>

\* menu entry 2: banker.safe?
CheckSafety ==
    /\ last' = [op |-> "safe?", ok |-> TRUE, reason |-> "",
                chk |-> report(safe(state)),
                streak |-> IF last.streak = 0 THEN 1 ELSE 2]
    /\ state' = safe(state).state
    /\ UNCHANGED <<call, init_safe, run, sim, sched>>

\* menu entry 3: banker.request(pid, req)
Request(pid, req) ==
    LET r == request(state, pid, req)
    IN  /\ state' = r.state
        /\ last' = [op |-> "request", ok |-> r.ok, reason |-> r.reason,
                    chk |-> no_check, streak |-> 0]
        /\ UNCHANGED <<init_safe, run, sim, sched>>

\* the request left unobserved, and observed
Unobserved(pid, req) == Request(pid, req) /\ UNCHANGED call

Observed(pid, req) ==
    Request(pid, req) /\ call' = [pid |-> pid, req |-> req, pre |-> state]

-----------------------------------------------------------------------------
(* The same operations in steps: the menu loop starts one operation at its *)
(* prompt, safe? makes its passes one by one, and the loop reaches the     *)
(* prompt again when the call has returned (lines 192-216).  The request   *)
(* vector is read no more once it is applied (line 88) and is not kept.    *)
(* The passes are not counted here.                                        *)

\* variant: the loop reads the next choice whatever the call in progress
menu_ready_always(r) == TRUE

\* line 195: the loop reads a choice only at its prompt, after the call of
\* the choice before has returned
menu_ready(r) == r.pc = "menu"

\* variant: progress is cleared once, before the loop, not at each pass
loop_pass_keeps_progress(s, r) ==
    LET d == scan(s, r.c, 0)
    IN  [r EXCEPT !.c = d, !.pc = IF d.progress THEN "loop" ELSE "ret"]

\* lines 37-52, one turn of `loop do ... end`: progress = false, the pass
\* over the processes, and the loop is left unless the pass made progress
loop_pass(s, r) ==
    LET d == scan(s, [r.c EXCEPT !.progress = FALSE], 0)
    IN  [r EXCEPT !.c = d, !.pc = IF d.progress THEN "loop" ELSE "ret"]

\* lines 54-61 on the locals the loop ended on
safe_result(c) ==
    [safe     |-> \A i \in DOMAIN c.finish : c.finish[i],
     sequence |-> c.sequence,
     remain   |-> {i \in DOMAIN c.finish : ~c.finish[i]},
     work     |-> c.work,
     passes   |-> 0]

\* menu entry 2, lines 200-201 and 31-38: safe? is entered
StartSafety ==
    /\ menu_ready(run)
    /\ run' = [idle EXCEPT !.pc = "loop", !.op = "safe?", !.c = safe_begin(state)]
    /\ UNCHANGED <<state, last, call, init_safe, sim, sched>>

\* menu entry 3, lines 203-209 and 65-88: request is entered; it returns at
\* once when a guard refuses it, else it saves the three vectors, applies
\* the request and enters safe? (line 90)
StartRequest(pid, req) ==
    /\ menu_ready(run)
    /\ LET v == validate(state, pid, req)
       IN  IF v # "ok"
           THEN /\ last' = [op |-> "request", ok |-> FALSE, reason |-> v,
                            chk |-> no_check, streak |-> 0]
                /\ run' = idle
                /\ state' = state
           ELSE /\ state' = tentative_apply(state, pid, req)
                /\ run' = [idle EXCEPT
                             !.pc = "loop", !.op = "request", !.pid = pid,
                             !.old = [available  |-> state.available,
                                      allocation |-> state.allocation[pid],
                                      need       |-> state.need[pid]],
                             !.c = safe_begin(tentative_apply(state, pid, req))]
                /\ last' = last
    /\ UNCHANGED <<call, init_safe, sim, sched>>

\* lines 37-52: one pass of the loop of safe?
LoopPass ==
    /\ run.pc = "loop"
    /\ run' = loop_pass(state, run)
    /\ state' = loop_pass(state, run).c.state
    /\ UNCHANGED <<last, call, init_safe, sim, sched>>

\* lines 54-61, and for request lines 95-103: safe? returns, request commits
\* or rolls back from its saved vectors, and the loop is at its prompt again
Return ==
    /\ run.pc = "ret"
    /\ IF run.op = "safe?"
       THEN /\ last' = [op |-> "safe?", ok |-> TRUE, reason |-> "",
                        chk |-> safe_result(run.c), streak |-> 0]
            /\ state' = state
       ELSE LET old == [state EXCEPT !.available = run.old.available,
                                     !.allocation[run.pid] = run.old.allocation,
                                     !.need[run.pid] = run.old.need]
                r   == decide(old, state, run.pid, safe_result(run.c))
            IN  /\ last' = [op |-> "request", ok |-> r.ok, reason |-> r.reason,
                            chk |-> no_check, streak |-> 0]
                /\ state' = r.state
    /\ run' = idle
    /\ UNCHANGED <<call, init_safe, sim, sched>>

\* the statements of the call in progress
Step == LoopPass \/ Return

NextRun ==
    \/ StartSafety
    \/ /\ menu_ready(run)
       /\ \E pid \in Pids : \E req \in ReqVecs : StartRequest(pid, req)
    \/ LoopPass
    \/ Return

\* one operation on a generic system, in steps: every SystemState of the
\* family is an initial state
NextRunOnce ==
    \/ last.op = "new" /\ StartSafety
    \/ /\ last.op = "new" /\ menu_ready(run)
       /\ \E pid \in Pids : \E req \in ReqVecs : StartRequest(pid, req)
    \/ LoopPass
    \/ Return

-----------------------------------------------------------------------------
(* The page replacement program: main reads an algorithm, a frame count    *)
(* and a reference string, runs simulate and prints the results            *)
(* (page_replacement.cpp lines 256-307).                                   *)

\* what main accepts: a choice other than 0, a frame count above 0 (line
\* 276), a reference string that is not empty (line 294)
AlgoChoices == 1..4

FrameCounts == 1..MaxFrames

Pages == 0..MaxPage

RefStrings == UNION {[1..k -> Pages] : k \in 1..MaxRefLen}

\* simulate, lines 179-182, with newAlgoState (lines 165-176) and the
\* constructors of lines 34, 66, 106
start_sim(algo, frameCount, ref) ==
    [algo |-> algo, ref |-> ref, step |-> 0,
     frames |-> [i \in 0..(frameCount - 1) |-> empty_frame],
     nextIndex_ |-> 0,
     lastUsed_ |-> [i \in 0..(frameCount - 1) |-> -1],
     results |-> <<>>, done |-> FALSE, hits |-> 0, faults |-> 0]

\* printResults, lines 231-233: the hits and the faults among the results
RECURSIVE count_hits(_, _)
count_hits(results, k) ==
    IF k = 0 THEN 0
    ELSE count_hits(results, k - 1) + (IF results[k].hit THEN 1 ELSE 0)

InitPaging ==
    /\ sim = no_sim
    /\ sched = no_sched
    /\ state = no_state
    /\ last = new_last
    /\ call = no_call
    /\ init_safe = FALSE
    /\ run = idle

\* lines 262-303: the inputs are read and simulate is entered
Simulate(choice, frameCount, ref) ==
    /\ sim.algo = "none"
    /\ sim' = start_sim(selectAlgo(choice), frameCount, ref)
    /\ UNCHANGED <<state, last, call, init_safe, run, sched>>

\* lines 185-192: the access of ref[step] and the StepResult pushed
sim_step(s) ==
    LET r == access(s.algo, [nextIndex_ |-> s.nextIndex_, lastUsed_ |-> s.lastUsed_],
                    s.step, s.ref[s.step + 1], s.frames, s.ref)
    IN  [s EXCEPT
           !.frames = r.frames,
           !.nextIndex_ = r.a.nextIndex_,
           !.lastUsed_ = r.a.lastUsed_,
           !.results = Append(s.results,
                              [step |-> s.step, page |-> s.ref[s.step + 1],
                               hit |-> r.hit, victim |-> r.victim,
                               frames |-> r.frames]),
           !.step = s.step + 1]

\* the loop of simulate from the state s on, lines 184-195
RECURSIVE sim_loop(_)
sim_loop(s) == IF s.step >= Len(s.ref) THEN s ELSE sim_loop(sim_step(s))

\* simulate, lines 178-196: the results it returns
simulate(algo, frameCount, ref) == sim_loop(start_sim(algo, frameCount, ref)).results

\* the faults printResults counts in the results, lines 231-233
faults_of(results) == Len(results) - count_hits(results, Len(results))

\* lines 184-193: one turn of the loop of simulate
Access ==
    /\ sim.algo # "none" /\ ~sim.done
    /\ sim.step < Len(sim.ref)
    /\ sim' = sim_step(sim)
    /\ UNCHANGED <<state, last, call, init_safe, run, sched>>

\* lines 195 and 303-304: simulate returns and the results are printed
PrintResults ==
    /\ sim.algo # "none" /\ ~sim.done
    /\ sim.step >= Len(sim.ref)
    /\ sim' = [sim EXCEPT !.done = TRUE,
                          !.hits = count_hits(sim.results, Len(sim.results)),
                          !.faults = Len(sim.results)
                                       - count_hits(sim.results, Len(sim.results))]
    /\ UNCHANGED <<state, last, call, init_safe, run, sched>>

\* line 261: back to the prompt
Again ==
    /\ sim.done
    /\ sim' = no_sim
    /\ UNCHANGED <<state, last, call, init_safe, run, sched>>

NextPaging ==
    \/ /\ sim.algo = "none"
       /\ \E choice \in AlgoChoices : \E frameCount \in FrameCounts :
            \E ref \in RefStrings : Simulate(choice, frameCount, ref)
    \/ Access
    \/ PrintResults
    \/ Again

SpecPaging == InitPaging /\ [][NextPaging]_vars

-----------------------------------------------------------------------------
(* SRTF scheduling (src/unnamed/part_000, Go): SRTF, lines 252-324, on     *)
(* Pcbs made by NewPcb.  A Pcb is known by its id; Name() is the id's      *)
(* decimal form followed by the name, so for ids of one digit and one      *)
(* name the order of the names is the order of the ids.  The log lines     *)
(* are not modelled.                                                       *)

\* the ids of the Pcbs handed to SRTF: any subset of these
PcbIds == {1, 2, 3}
\* latest arrival time of a Pcb
MaxArrival == 4
\* largest burst of a Pcb
MaxBurst == 3

\* NewPcb, lines 143-149, with NewBaseInfo, lines 86-99
NewPcb(id, arrival, burst) ==
    [id |-> id, arrival |-> arrival, burst |-> burst, remain |-> burst,
     start |-> -1, finish |-> -1, wait |-> -1, tat |-> -1, restarts |-> <<>>]

\* Pcb.SetStart, lines 151-156
SetStart(p, st) ==
    [p EXCEPT !.start = IF p.start = -1 THEN st ELSE p.start,
              !.restarts = Append(p.restarts, st)]

\* Pcb.ComputeStats, lines 162-170
ComputeStats(p) ==
    IF p.finish >= 0
    THEN [p EXCEPT !.tat = p.finish - p.arrival,
                   !.wait = IF p.finish - p.arrival - p.burst < 0 THEN 0
                            ELSE p.finish - p.arrival - p.burst]
    ELSE p

\* Pcb.SetFinish, lines 157-161
SetFinish(p, f) == ComputeStats([p EXCEPT !.finish = f, !.remain = 0])

\* the comparison of lines 264-269: by arrival, then by name
pcbs_less(pcb, a, b) ==
    IF pcb[a].arrival # pcb[b].arrival THEN pcb[a].arrival < pcb[b].arrival
    ELSE a < b

\* sort.Slice of lines 264-269: the order is total, so the result is the
\* one sequence in which each Pcb is less than those after it
RECURSIVE sort_pcbs(_, _)
sort_pcbs(pcb, ids) ==
    IF ids = {} THEN <<>>
    ELSE LET first == CHOOSE a \in ids : \A b \in ids \ {a} : pcbs_less(pcb, a, b)
         IN  <<first>> \o sort_pcbs(pcb, ids \ {first})

\* the comparison of lines 295-301: by remaining time, then by arrival
ready_less(pcb, a, b) ==
    IF pcb[a].remain # pcb[b].remain THEN pcb[a].remain < pcb[b].remain
    ELSE pcb[a].arrival < pcb[b].arrival

\* sort.SliceStable of lines 295-301: x is put before the first element it
\* is less than, so equal elements keep their order
RECURSIVE insert_stable(_, _, _)
insert_stable(pcb, q, x) ==
    IF q = <<>> THEN <<x>>
    ELSE IF ready_less(pcb, x, Head(q)) THEN <<x>> \o q
    ELSE <<Head(q)>> \o insert_stable(pcb, Tail(q), x)

RECURSIVE sort_ready(_, _)
sort_ready(pcb, q) ==
    IF q = <<>> THEN <<>>
    ELSE insert_stable(pcb, sort_ready(pcb, SubSeq(q, 1, Len(q) - 1)), q[Len(q)])

\* resOut with a PreemptArgs, lines 336-346: the segment is appended while
\* the Pcb has no finish time
resOut(p, g, param) ==
    IF p.finish = -1
    THEN Append(g, [Start |-> param.Run, End |-> param.Pause, Name |-> p.id])
    ELSE g

\* lines 280-283: the Pcbs that have arrived by t join the ready queue
RECURSIVE admit(_)
admit(s) ==
    IF s.nextIdx < Len(s.pcbs) /\ s.pcb[s.pcbs[s.nextIdx + 1]].arrival <= s.t
    THEN admit([s EXCEPT !.readyQueue = Append(s.readyQueue, s.pcbs[s.nextIdx + 1]),
                         !.nextIdx = s.nextIdx + 1])
    ELSE s

min(a, b) == IF a < b THEN a ELSE b

\* variant: the running Pcb runs to its end whatever arrives meanwhile
run_length_to_completion(s, p) == p.remain

\* lines 307-311: how long the chosen Pcb runs from s.t
run_length(s, p) ==
    IF s.nextIdx < Len(s.pcbs)
    THEN min(s.pcb[s.pcbs[s.nextIdx + 1]].arrival - s.t, p.remain)
    ELSE p.remain

\* lines 302-321: the head of the sorted queue runs
run_head(s) ==
    LET q        == sort_ready(s.pcb, s.readyQueue)
        c        == Head(q)
        p1       == IF s.pcb[c].start = -1 THEN SetStart(s.pcb[c], s.t) ELSE s.pcb[c]
        duration == run_length(s, p1)
        param    == [Run |-> s.t, Pause |-> s.t + duration, Duration |-> duration]
        g1       == resOut(p1, s.gantt, param)
        p2       == [p1 EXCEPT !.remain = p1.remain - duration]
    IN  IF p2.remain = 0
        THEN [s EXCEPT !.readyQueue = Tail(q), !.t = s.t + duration,
                       !.pcb[c] = SetFinish(p2, s.t + duration),
                       !.gantt = resOut(SetFinish(p2, s.t + duration), g1, param),
                       !.curr = 0,
                       !.completed = s.completed + 1]
        ELSE [s EXCEPT !.readyQueue = Tail(q), !.t = s.t + duration,
                       !.pcb[c] = p2, !.gantt = g1, !.curr = c]

\* one turn of the loop of lines 279-322, and its test for the turn after
srtf_turn(s) ==
    LET s1 == admit(s)
        s2 == IF s1.curr # 0
              THEN [s1 EXCEPT !.readyQueue = Append(s1.readyQueue, s1.curr), !.curr = 0]
              ELSE s1
        s3 == IF Len(s2.readyQueue) = 0
              THEN IF s2.nextIdx < Len(s2.pcbs)
                   THEN [s2 EXCEPT !.t = s2.pcb[s2.pcbs[s2.nextIdx + 1]].arrival]
                   ELSE [s2 EXCEPT !.pc = "done"]
              ELSE run_head(s2)
    IN  IF s3.completed >= Len(s3.pcbs) THEN [s3 EXCEPT !.pc = "done"] ELSE s3

\* lines 252-278: SRTF is entered on the Pcbs of items
srtf_begin(items) ==
    IF DOMAIN items = {} THEN [no_sched EXCEPT !.pc = "done"]
    ELSE LET pcb  == [id \in DOMAIN items |-> NewPcb(id, items[id].arrival, items[id].burst)]
             pcbs == sort_pcbs(pcb, DOMAIN items)
         IN  [no_sched EXCEPT !.pc = "loop", !.pcbs = pcbs, !.pcb = pcb,
                              !.t = pcb[pcbs[1]].arrival]

\* what SRTF is called on: Pcbs with a positive burst; an arrival time
\* below 0 is among them (NewPcb takes any int)
Arrivals == {-2} \cup 0..MaxArrival

PcbInputs == [arrival : Arrivals, burst : 1..MaxBurst]

ItemSets == UNION {[ids -> PcbInputs] : ids \in SUBSET PcbIds}

InitSched ==
    /\ sched = no_sched
    /\ sim = no_sim
    /\ state = no_state
    /\ last = new_last
    /\ call = no_call
    /\ init_safe = FALSE
    /\ run = idle

CallSRTF(items) ==
    /\ sched.pc = "idle"
    /\ sched' = srtf_begin(items)
    /\ UNCHANGED <<state, last, call, init_safe, run, sim>>

Turn ==
    /\ sched.pc = "loop"
    /\ sched' = srtf_turn(sched)
    /\ UNCHANGED <<state, last, call, init_safe, run, sim>>

\* line 323: SRTF has returned; its caller goes on
Returned ==
    /\ sched.pc = "done"
    /\ sched' = no_sched
    /\ UNCHANGED <<state, last, call, init_safe, run, sim>>

NextSched ==
    \/ /\ sched.pc = "idle"
       /\ \E items \in ItemSets : CallSRTF(items)
    \/ Turn
    \/ Returned

SpecSched == InitSched /\ [][NextSched]_vars

-----------------------------------------------------------------------------
(* The banker program, its specifications.                                 *)

\* any sequence of menu operations on a generic system
Next ==
    \/ CheckSafety
    \/ \E pid \in Pids : \E req \in ReqVecs : Unobserved(pid, req)

\* one observed request on a generic system: every SystemState of the family
\* is an initial state, so this covers each call of every sequence
NextCall ==
    \E pid \in Pids : \E req \in ReqVecs : last.op = "new" /\ Observed(pid, req)

\* any sequence of menu operations on the classic example
NextSample ==
    \/ CheckSafety
    \/ \E pid \in SamplePids : \E req \in SampleReqs : Observed(pid, req)

\* safe? alone, called any number of times
NextSafety == CheckSafety

\* the construction of the state
NextBuild == BuildFromInput \/ UseSample

Spec == Init /\ [][Next]_vars

SpecRun == Init /\ [][NextRun]_vars

\* a call that has started goes on: the interpreter runs its statements
SpecRunOnce == Init /\ [][NextRunOnce]_vars /\ WF_vars(Step)

SpecBuild == InitBuild /\ [][NextBuild]_vars

SpecSafety == InitSafety /\ [][NextSafety]_vars

SpecCall == Init /\ [][NextCall]_vars

SpecSample == InitSample /\ [][NextSample]_vars

-----------------------------------------------------------------------------
(* What the claims speak of.                                               *)

SixReasons ==
    {"InvalidProcessId", "DimensionMismatch", "NegativeRequest",
     "ExceedsNeed", "ExceedsAvailable", "UnsafeAfterAllocation"}

\* the orderings of all processes of s
Orderings(s) ==
    {o \in [1..n(s) -> DOMAIN s.max] : \A a, b \in 1..n(s) : o[a] = o[b] => a = b}

\* available plus the allocations of the first k processes of order
RECURSIVE Released(_, _, _)
Released(s, order, k) ==
    IF k = 0 THEN s.available
    ELSE vec_add(Released(s, order, k - 1), s.allocation[order[k]])

\* every process of order finds its need covered by what was released before it
Completes(s, order) ==
    \A k \in 1..Len(order) : \A j \in 1..m(s) :
        s.need[order[k]][j] <= Released(s, order, k - 1)[j]

ExistsOrder(s) == \E o \in Orderings(s) : Completes(s, o)

ValidCompletion(s, order) ==
    /\ Len(order) = n(s)
    /\ \A i \in DOMAIN s.max : Cardinality({k \in 1..Len(order) : order[k] = i}) = 1
    /\ Completes(s, order)

\* the state the claims give for the classic example after Scenario B
post_b ==
    [sample_state EXCEPT !.available = <<2, 3, 0>>,
                         !.allocation[1] = <<3, 0, 2>>,
                         !.need[1] = <<0, 2, 0>>]

\* C1: after every call of any sequence of requests on a state that satisfied
\* the four data-model invariants, the four invariants hold
C1_InvariantsPreserved == WellFormed(state)

C1_Witness ==
    /\ last.op = "request" /\ last.ok
    /\ \E i \in DOMAIN state.max : state.allocation[i] # [j \in 1..MRes |-> 0]
    /\ \E j \in 1..MRes : state.available[j] > 0

\* C2: a rejected request, whatever the reason among the six, leaves every
\* field of the SystemState as it was before the call
C2_RejectionLeavesState ==
    (last.op = "request" /\ ~last.ok) =>
        /\ last.reason \in SixReasons
        /\ state = call.pre

C2_Witness ==
    /\ last.op = "request" /\ ~last.ok
    /\ last.reason = "UnsafeAfterAllocation"
    /\ \E j \in 1..Len(call.req) : call.req[j] > 0

\* C3: when the constructed state was safe, the state after any sequence of
\* requests is safe
C3_StaysSafe == init_safe => safe(state).safe

C3_Witness ==
    /\ init_safe /\ last.op = "request" /\ last.ok
    /\ \E i \in DOMAIN state.max : ~vec_leq(state.need[i], state.available)

\* C4: safe? answers safe exactly when some ordering of all processes lets
\* each one find its need within available plus the allocations of its
\* predecessors
C4_SafeIffOrderExists ==
    last.op = "safe?" => (last.chk.safe <=> ExistsOrder(state))

C4_Witness ==
    /\ last.op = "safe?" /\ last.chk.safe
    /\ last.chk.sequence = <<1, 0>>

\* C5: when safe? answers safe, its order holds every process exactly once
\* and each process's need is covered by available plus the allocations of
\* the processes before it in the order
C5_OrderIsCompletion ==
    (last.op = "safe?" /\ last.chk.safe) => ValidCompletion(state, last.chk.sequence)

C5_Witness ==
    /\ last.op = "safe?" /\ last.chk.safe
    /\ last.chk.sequence = <<0, 1>>
    /\ ~vec_leq(state.need[1], state.available)

\* C6: the rejection is that of the first failing check in the order pid
\* range, vector length, non-negativity, need, available
C6_FirstFailingCheck ==
    last.op = "request" =>
        LET s        == call.pre
            pid      == call.pid
            req      == call.req
            pid_ok   == pid >= 0 /\ pid < n(s)
            len_ok   == Len(req) = m(s)
            nonneg   == \A k \in 1..Len(req) : req[k] >= 0
            in_need  == \A k \in 1..Len(req) : req[k] <= s.need[pid][k]
            in_avail == \A k \in 1..Len(req) : req[k] <= s.available[k]
        IN  /\ ~pid_ok => last.reason = "InvalidProcessId"
            /\ (pid_ok /\ ~len_ok) => last.reason = "DimensionMismatch"
            /\ (pid_ok /\ len_ok /\ ~nonneg) => last.reason = "NegativeRequest"
            /\ (pid_ok /\ len_ok /\ nonneg /\ ~in_need) => last.reason = "ExceedsNeed"
            /\ (pid_ok /\ len_ok /\ nonneg /\ in_need /\ ~in_avail) =>
                   last.reason = "ExceedsAvailable"

C6_Witness ==
    /\ last.op = "request" /\ last.reason = "ExceedsNeed"
    /\ \E k \in 1..Len(call.req) : call.req[k] > call.pre.available[k]

\* C7: a granted request moves req from available to allocation[pid], lowers
\* need[pid] by req, and changes nothing else
C7_GrantEffect ==
    (last.op = "request" /\ last.ok) =>
        LET s == call.pre
            p == call.pid
            r == call.req
        IN  /\ DOMAIN state.available = 1..m(s)
            /\ \A j \in 1..m(s) :
                  /\ state.available[j] = s.available[j] - r[j]
                  /\ state.allocation[p][j] = s.allocation[p][j] + r[j]
                  /\ state.need[p][j] = s.need[p][j] - r[j]
            /\ state.total = s.total
            /\ state.max = s.max
            /\ DOMAIN state.allocation = DOMAIN s.allocation
            /\ DOMAIN state.need = DOMAIN s.need
            /\ \A i \in DOMAIN s.max \ {p} :
                  /\ state.allocation[i] = s.allocation[i]
                  /\ state.need[i] = s.need[i]

C7_Witness ==
    /\ last.op = "request" /\ last.ok
    /\ \E j \in 1..Len(call.req) : call.req[j] > 0

\* C8 as stated: Scenario C is rejected as UnsafeAfterAllocation and leaves
\* the post-Scenario-B state
C8_ScenarioC_Original ==
    (last.op = "request" /\ call.pre = post_b /\ call.pid = 4
         /\ call.req = <<3, 3, 0>>) =>
        /\ ~last.ok
        /\ last.reason = "UnsafeAfterAllocation"
        /\ state = post_b

\* C8 as amended: Scenario C is rejected as ExceedsAvailable (3 units of the
\* first resource asked, 2 available) and leaves the post-Scenario-B state
C8_ScenarioC ==
    (last.op = "request" /\ call.pre = post_b /\ call.pid = 4
         /\ call.req = <<3, 3, 0>>) =>
        /\ ~last.ok
        /\ last.reason = "ExceedsAvailable"
        /\ state = post_b

C8_Witness ==
    /\ last.op = "request" /\ call.pre = post_b /\ call.pid = 4
    /\ call.req = <<3, 3, 0>>

\* C9: on the classic example safe? answers safe with the order 1, 3, 4, 0, 2
C9_ScenarioA ==
    (last.op = "safe?" /\ state = sample_state) =>
        /\ state.available = <<3, 3, 2>>
        /\ last.chk.safe
        /\ last.chk.sequence = <<1, 3, 4, 0, 2>>

C9_Witness == last.op = "safe?" /\ state = sample_state

\* C10: on the classic example request(1, [1,0,2]) is granted and leaves
\* available = [2,3,0], allocation[1] = [3,0,2], need[1] = [0,2,0]
C10_ScenarioB ==
    (last.op = "request" /\ call.pre = sample_state /\ call.pid = 1
         /\ call.req = <<1, 0, 2>>) =>
        /\ last.ok
        /\ state.available = <<2, 3, 0>>
        /\ state.allocation[1] = <<3, 0, 2>>
        /\ state.need[1] = <<0, 2, 0>>

C10_Witness ==
    /\ last.op = "request" /\ call.pre = sample_state /\ call.pid = 1
    /\ call.req = <<1, 0, 2>> /\ last.ok

\* C11 as stated: safe? makes at most n passes over the processes
C11_AtMostNPasses_Original ==
    last.op = "safe?" => last.chk.passes <= n(state)

\* C11 as amended: safe? makes at most n + 1 passes: every pass but the last
\* finishes at least one process, and the last one finishes none
C11_AtMostNPlusOnePasses ==
    last.op = "safe?" =>
        /\ last.chk.passes >= 1
        /\ last.chk.passes <= Len(last.chk.sequence) + 1
        /\ last.chk.passes <= n(state) + 1

C11_Witness ==
    /\ last.op = "safe?"
    /\ last.chk.passes = n(state) + 1

\* C13: a call of safe? leaves total, available, max, allocation and need as
\* they were before the call
C13_SafetyCheckReadsOnly == [][last'.op = "safe?" => state' = state]_vars

C13_Witness ==
    /\ last.op = "safe?"
    /\ Len(last.chk.sequence) >= 2
    /\ last.chk.work # state.available

\* C14: two calls of safe? with no request between them return the same flag
\* and the same order
C14_SafetyCheckRepeats ==
    [][(last.op = "safe?" /\ last'.op = "safe?") =>
          /\ last'.chk.safe = last.chk.safe
          /\ last'.chk.sequence = last.chk.sequence]_vars

C14_Witness ==
    /\ last.op = "safe?" /\ last.streak = 2
    /\ ~last.chk.safe
    /\ Len(last.chk.sequence) >= 1

\* C15: when safe? answers unsafe, its order holds the finished processes once
\* each in the order they completed, the remaining processes are those not in
\* the order, and the need of each remaining process exceeds somewhere the
\* final work, available plus the allocations of the processes in the order
C15_UnsafeReport ==
    (last.op = "safe?" /\ ~last.chk.safe) =>
        LET order == last.chk.sequence
            final == Released(state, order, Len(order))
        IN  /\ \A a, b \in 1..Len(order) : order[a] = order[b] => a = b
            /\ Completes(state, order)
            /\ last.chk.remain = DOMAIN state.max \ {order[k] : k \in 1..Len(order)}
            /\ last.chk.remain # {}
            /\ last.chk.work = final
            /\ \A i \in last.chk.remain :
                  \E j \in 1..m(state) : state.need[i][j] > final[j]

C15_Witness ==
    /\ last.op = "safe?" /\ ~last.chk.safe
    /\ Len(last.chk.sequence) >= 1
    /\ last.chk.remain # {}

\* C16: every SystemState a constructor produces (sample_state, or
\* build_from_input on input it accepts) satisfies the four data-model
\* invariants, max <= total among them
C16_ConstructorsEstablishInvariants ==
    (last.op \in {"build", "sample"} /\ last.ok) => WellFormed(state)

\* a request between its tentative allocation and its commit or rollback
Tentative == run.op = "request" /\ run.pc \in {"loop", "ret"}

\* the state a request in progress was called on
BeforeRequest ==
    [state EXCEPT !.available = run.old.available,
                  !.allocation[run.pid] = run.old.allocation,
                  !.need[run.pid] = run.old.need]

Finished(r) == {i \in DOMAIN r.c.finish : r.c.finish[i]}

\* C17: every call of safe? and of request returns, on every well-formed
\* state and every input (the one call of a behaviour ends, and the program
\* is at its prompt from then on); a pass after which the loop goes on has
\* finished a process more, and no pass un-finishes one
C17_EveryCallTerminates ==
    /\ <>[](run.pc = "menu")
    /\ [][(run.pc = "loop" /\ run'.pc # "menu") =>
             /\ Finished(run) \subseteq Finished(run')
             /\ run'.pc = "loop" => Finished(run') # Finished(run)]_vars

C17_Witness ==
    /\ run.pc = "ret" /\ run.op = "request"
    /\ run.c.sequence = <<1, 0>>

\* the result of the access just made, and the frames before it
LastResult == sim.results[Len(sim.results)]

FramesBefore ==
    IF Len(sim.results) = 1 THEN [i \in DOMAIN sim.frames |-> empty_frame]
    ELSE sim.results[Len(sim.results) - 1].frames

Holding(frames, page) == {i \in DOMAIN frames : frames[i].valid /\ frames[i].page = page}

Invalid(frames) == {i \in DOMAIN frames : ~frames[i].valid}

\* a fault that took a frame which held a page
Eviction ==
    /\ Len(sim.results) >= 1
    /\ ~LastResult.hit
    /\ FramesBefore[LastResult.victim].valid

\* C18: after every access of simulate, under each of the three algorithms,
\* the referenced page is in exactly one valid frame and no page is in two;
\* a hit returns victim -1 and leaves the frames as they were; a fault fills
\* the lowest invalid frame while there is one and changes no other frame,
\* and takes the frame of a resident page only when every frame is valid
C18_AccessKeepsFrames ==
    Len(sim.results) >= 1 =>
        LET r == LastResult
            b == FramesBefore
        IN  /\ sim.frames = r.frames
            /\ Cardinality(Holding(sim.frames, r.page)) = 1
            /\ \A i, j \in DOMAIN sim.frames :
                   (sim.frames[i].valid /\ sim.frames[j].valid
                      /\ sim.frames[i].page = sim.frames[j].page) => i = j
            /\ r.hit <=> Holding(b, r.page) # {}
            /\ r.hit => (r.victim = -1 /\ sim.frames = b)
            /\ ~r.hit =>
                   /\ r.victim \in DOMAIN b
                   /\ sim.frames = [b EXCEPT ![r.victim] = [page |-> r.page, valid |-> TRUE]]
                   /\ Invalid(b) # {} =>
                          (r.victim \in Invalid(b) /\ \A i \in Invalid(b) : r.victim <= i)
                   /\ b[r.victim].valid => Invalid(b) = {}

C18_Witness ==
    /\ sim.algo = "Opt_algo" /\ Eviction
    /\ LastResult.victim = 1
    /\ \E k \in 1..Len(sim.results) : sim.results[k].hit

\* the step at which frame i was last loaded among the first upto results,
\* -1 when it was not
LoadedAt(i, upto) ==
    LET S == {k \in 1..upto : ~sim.results[k].hit /\ sim.results[k].victim = i}
    IN  IF S = {} THEN -1 ELSE (CHOOSE k \in S : \A l \in S : l <= k) - 1

\* the step of the last reference to page among the first upto references,
\* -1 when there was none
LastRef(page, upto) ==
    LET S == {k \in 1..upto : sim.ref[k] = page}
    IN  IF S = {} THEN -1 ELSE (CHOOSE k \in S : \A l \in S : l <= k) - 1

\* C19: under FIFO, the page an access evicts is the resident page that was
\* loaded earliest, and when every frame is valid nextIndex_ designates the
\* frame with the oldest load
C19_FifoEvictsOldestLoad ==
    (sim.algo = "Fifo_algo" /\ Len(sim.results) >= 1) =>
        /\ Eviction =>
              \A i \in DOMAIN sim.frames \ {LastResult.victim} :
                  LoadedAt(LastResult.victim, Len(sim.results) - 1)
                      < LoadedAt(i, Len(sim.results) - 1)
        /\ Invalid(sim.frames) = {} =>
              \A i \in DOMAIN sim.frames \ {sim.nextIndex_} :
                  LoadedAt(sim.nextIndex_, Len(sim.results))
                      < LoadedAt(i, Len(sim.results))

C19_Witness ==
    /\ sim.algo = "Fifo_algo" /\ Eviction
    /\ frame_count(sim.frames) >= 2
    /\ \E k \in 1..Len(sim.results) :
          sim.results[k].hit /\ sim.results[k].page = FramesBefore[LastResult.victim].page

\* C20: under LRU, the page an access evicts is the resident page whose
\* last reference, hit or load, is the oldest
C20_LruEvictsLeastRecent ==
    (sim.algo = "Lru_algo" /\ Eviction) =>
        \A i \in DOMAIN sim.frames \ {LastResult.victim} :
            LastRef(FramesBefore[LastResult.victim].page, Len(sim.results) - 1)
                < LastRef(FramesBefore[i].page, Len(sim.results) - 1)

C20_Witness ==
    /\ sim.algo = "Lru_algo" /\ Eviction
    /\ frame_count(sim.frames) >= 2
    /\ LastResult.victim = 1
    /\ LoadedAt(0, Len(sim.results) - 1) < LoadedAt(1, Len(sim.results) - 1)

\* the position of the next reference to page after position k of the
\* reference string, 0 when there is none
NextRef(page, k) ==
    LET S == {j \in (k + 1)..Len(sim.ref) : sim.ref[j] = page}
    IN  IF S = {} THEN 0 ELSE CHOOSE j \in S : \A l \in S : j <= l

\* C21: on the same input, simulate reports under OPT no more faults than
\* under FIFO and no more than under LRU; and each eviction of OPT takes a
\* resident page that is never referenced again if there is one, else the
\* resident page whose next reference is the farthest
C21_OptIsBest ==
    /\ (sim.algo = "Opt_algo" /\ sim.done) =>
          /\ sim.faults = faults_of(simulate("Opt_algo", frame_count(sim.frames), sim.ref))
          /\ sim.faults
                <= faults_of(simulate("Fifo_algo", frame_count(sim.frames), sim.ref))
          /\ sim.faults
                <= faults_of(simulate("Lru_algo", frame_count(sim.frames), sim.ref))
    /\ (sim.algo = "Opt_algo" /\ Eviction) =>
          LET k == Len(sim.results)
              b == FramesBefore
              v == LastResult.victim
          IN  IF \E i \in DOMAIN b : NextRef(b[i].page, k) = 0
              THEN NextRef(b[v].page, k) = 0
              ELSE \A i \in DOMAIN b : NextRef(b[i].page, k) <= NextRef(b[v].page, k)

C21_Witness ==
    /\ sim.algo = "Opt_algo" /\ sim.done
    /\ sim.faults < faults_of(simulate("Fifo_algo", frame_count(sim.frames), sim.ref))
    /\ sim.faults < faults_of(simulate("Lru_algo", frame_count(sim.frames), sim.ref))
    /\ \E k \in 2..Len(sim.results) :
          ~sim.results[k].hit /\ sim.results[k - 1].frames[sim.results[k].victim].valid

\* the Pcbs of the scheduling run
Scheduled == DOMAIN sched.pcb

\* the time the Pcb id has run in the first k segments of the Gantt chart
RECURSIVE RanIn(_, _)
RanIn(id, k) ==
    IF k = 0 THEN 0
    ELSE RanIn(id, k - 1)
           + (IF sched.gantt[k].Name = id THEN sched.gantt[k].End - sched.gantt[k].Start
              ELSE 0)

\* what is left of the burst of id when segment k starts
RemainAt(id, k) == sched.pcb[id].burst - RanIn(id, k - 1)

\* the Pcbs that have arrived and are not finished when segment k starts
ReadyAt(k) ==
    {id \in Scheduled :
        sched.pcb[id].arrival <= sched.gantt[k].Start /\ RemainAt(id, k) > 0}

\* the arrival times after time x
ArrivalsAfter(x) ==
    {sched.pcb[id].arrival : id \in {a \in Scheduled : sched.pcb[a].arrival > x}}

\* the four properties of a run of SRTF, on the Gantt chart emitted so far
\* and, when SRTF has returned, on the Pcbs
SrtfSchedule ==
    /\ \A k \in 1..Len(sched.gantt) :
          LET g == sched.gantt[k]
          IN  /\ g.Name \in ReadyAt(k)
              /\ \A id \in ReadyAt(k) : RemainAt(g.Name, k) <= RemainAt(id, k)
              /\ g.Start < g.End
              /\ \A j \in 1..(k - 1) : sched.gantt[j].End <= g.Start
              /\ \/ g.End - g.Start = RemainAt(g.Name, k)
                 \/ /\ g.End \in ArrivalsAfter(g.Start)
                    /\ g.End - g.Start < RemainAt(g.Name, k)
              /\ \A a \in ArrivalsAfter(g.Start) : g.End <= a
    /\ sched.pc = "done" =>
          \A id \in Scheduled :
              /\ sched.pcb[id].remain = 0
              /\ RanIn(id, Len(sched.gantt)) = sched.pcb[id].burst
              /\ sched.pcb[id].finish >= sched.pcb[id].arrival + sched.pcb[id].burst
              /\ \E k \in 1..Len(sched.gantt) :
                    sched.gantt[k].Name = id /\ sched.gantt[k].End = sched.pcb[id].finish

\* C22 as stated: for any set of Pcbs with positive bursts, every segment
\* runs a Pcb with the smallest remaining time among those arrived and not
\* finished, segments do not overlap, each ends at the next arrival or at
\* the completion of its Pcb, and every Pcb finishes with segments that add
\* up to its burst and with finish >= arrival + burst
C22_SrtfSchedule_Original == SrtfSchedule

\* C22 amended: the same for any set of Pcbs with positive bursts and
\* arrival times of 0 or more
C22_SrtfScheduleFromZero ==
    (\A id \in Scheduled : sched.pcb[id].arrival >= 0) => SrtfSchedule

C22_Witness ==
    /\ sched.pc = "done"
    /\ \A id \in Scheduled : sched.pcb[id].arrival >= 0
    /\ Cardinality(Scheduled) = 3
    /\ \E j, k, l \in 1..Len(sched.gantt) :
          /\ j < k /\ k < l
          /\ sched.gantt[j].Name = sched.gantt[l].Name
          /\ sched.gantt[j].Name # sched.gantt[k].Name

=============================================================================
